---------------------------- MODULE Spec2Model ----------------------------
(***************************************************************************)
(* A model of siligpu: the GPUChannel arithmetic and the IOReport wrapper  *)
(* of src/src/ioreport.rs, parse_duration of src/src/lib.rs and the        *)
(* command-line program of src/src/main.rs.                                *)
(*                                                                         *)
(* Strings are sequences of one-character strings.  i64 and u64 keep       *)
(* their two's-complement behaviour at a reduced width (I64Bits, U64Bits). *)
(* An arithmetic overflow panics in a build with overflow checks (debug)   *)
(* and wraps in a build without them (release): the build is part of the   *)
(* state and chosen in Init.  f64 values are exact rationals <<n, d>> in   *)
(* lowest terms with d > 0, and <<n, 0>> for NaN (n = 0) and the           *)
(* infinities (n = 1, n = -1).                                             *)
(***************************************************************************)
EXTENDS Integers, Sequences, FiniteSets, TLC

VARIABLES
    build,      \* "debug" (overflow checks on) or "release" (wrapping)
    chan,       \* GPUChannel.states of the channel under test
    outTotal,   \* outcome of the last total_residency() call on chan
    outActive,  \* outcome of the last active_residency() call on chan
    outUsage,   \* outcome of the last usage() call on chan
    subs,       \* service: per subscription handle 1..Len, its CFRelease count
    cfobjs,     \* service: per CF object 1..Len (channel set, sample), its state
    nullReleases, \* service: number of CFRelease calls made on a null handle
    reports,    \* the live IOReport values
    samples,    \* the live sample dictionaries the program holds
    last,       \* the last library call: operation, foreign calls, result
    script,     \* the scripted answer of a service double, where one is used
    input,      \* the string handed to parse_duration
    parsed,     \* the outcome of parse_duration(input)
    pc,         \* main: the statement main() is at
    m,          \* main: its local variables
    calls,      \* main: the foreign calls and sleeps made so far, in order
    exit,       \* main: how the process ended
    output      \* main: the figures printed, one record per channel

chanVars == <<chan, outTotal, outActive, outUsage>>

libVars == <<subs, cfobjs, nullReleases, reports, samples, last, script>>

parseVars == <<input, parsed>>

mainVars == <<pc, m, calls, exit, output>>

vars == <<build, chan, outTotal, outActive, outUsage,
          subs, cfobjs, nullReleases, reports, samples, last, script,
          input, parsed, pc, m, calls, exit, output>>

(***************************************************************************)
(* Bounds of the model.                                                    *)
(***************************************************************************)
I64Bits == 4

MaxStates == 2

MaxSubs == 2

MaxCF == 4

MaxEntries == 2

MaxNameLen == 3

U64Bits == 12

MaxInputLen == 4

MaxPermLen == 3

(***************************************************************************)
(* Machine integers.                                                       *)
(***************************************************************************)
RECURSIVE Pow2(_)
Pow2(n) == IF n = 0 THEN 1 ELSE 2 * Pow2(n - 1)

I64Max == Pow2(I64Bits - 1) - 1

I64Min == -Pow2(I64Bits - 1)

Builds == {"debug", "release"}

\* An outcome of a call: a panic, or a value.
Panicked == [panic |-> TRUE, val |-> 0]

Returned(v) == [panic |-> FALSE, val |-> v]

NotCalled == [called |-> FALSE, panic |-> FALSE, val |-> 0]

Called(o) == [called |-> TRUE, panic |-> o.panic, val |-> o.val]

\* The two's-complement value an i64 result wraps to.
WrapI64(x) == ((x - I64Min) % Pow2(I64Bits)) + I64Min

\* a + b on i64 with the build's overflow behaviour.
i64_add(a, b, bld) ==
    IF a + b >= I64Min /\ a + b <= I64Max THEN Returned(a + b)
    ELSE IF bld = "debug" THEN Panicked
    ELSE Returned(WrapI64(a + b))

\* Iterator::sum over i64: a left fold from 0 with i64_add.
RECURSIVE i64_sum_from(_, _, _, _)
i64_sum_from(acc, rs, i, bld) ==
    IF acc.panic \/ i > Len(rs) THEN acc
    ELSE i64_sum_from(i64_add(acc.val, rs[i], bld), rs, i + 1, bld)

i64_sum(rs, bld) == i64_sum_from(Returned(0), rs, 1, bld)

(***************************************************************************)
(* f64 values: exact rationals, NaN and the infinities.                    *)
(***************************************************************************)
Abs(x) == IF x < 0 THEN -x ELSE x

RECURSIVE Gcd(_, _)
Gcd(a, b) == IF b = 0 THEN a ELSE Gcd(b, a % b)

F64(n, d) ==
    IF d = 0 THEN <<(IF n > 0 THEN 1 ELSE IF n < 0 THEN -1 ELSE 0), 0>>
    ELSE LET g == Gcd(Abs(n), Abs(d))
             sg == IF d < 0 THEN -1 ELSE 1
         IN <<(sg * n) \div g, (sg * d) \div g>>

F64Zero == <<0, 1>>

F64NaN == <<0, 0>>

IsFinite(x) == x[2] # 0

\* `x as f64` for an i64 x.
as_f64(x) == F64(x, 1)

f64_div(a, b) == F64(a[1] * b[2], a[2] * b[1])

f64_mul(a, b) == F64(a[1] * b[1], a[2] * b[2])

(***************************************************************************)
(* Strings: str::to_ascii_uppercase and str::contains.                     *)
(***************************************************************************)
Lowers == <<"a","b","c","d","e","f","g","h","i","j","k","l","m",
            "n","o","p","q","r","s","t","u","v","w","x","y","z">>

Uppers == <<"A","B","C","D","E","F","G","H","I","J","K","L","M",
            "N","O","P","Q","R","S","T","U","V","W","X","Y","Z">>

char_to_ascii_uppercase(c) ==
    IF \E i \in 1..Len(Lowers) : Lowers[i] = c
    THEN Uppers[CHOOSE i \in 1..Len(Lowers) : Lowers[i] = c]
    ELSE c

to_ascii_uppercase(s) == [i \in 1..Len(s) |-> char_to_ascii_uppercase(s[i])]

\* str::contains(pat): pat occurs in s as a contiguous substring.
contains(s, pat) ==
    \E k \in 0..(Len(s) - Len(pat)) :
        \A j \in 1..Len(pat) : s[k + j] = pat[j]

IDLE == <<"I","D","L","E">>

OFF == <<"O","F","F">>

DOWN == <<"D","O","W","N">>

\* The classification without the upper-casing, as main.rs tests the name.
is_active_name_case_sensitive(state_name) ==
    /\ ~contains(state_name, IDLE)
    /\ ~contains(state_name, OFF)
    /\ ~contains(state_name, DOWN)

\* The classification of IOReport::get_delta: upper-case the name, then look
\* for the three markers.
is_active_name(state_name) ==
    LET upper_state == to_ascii_uppercase(state_name)
    IN  /\ ~contains(upper_state, IDLE)
        /\ ~contains(upper_state, OFF)
        /\ ~contains(upper_state, DOWN)

(***************************************************************************)
(* GPUState and GPUChannel.                                                *)
(***************************************************************************)
GPUState(n, r, a) == [name |-> n, residency |-> r, is_active |-> a]

RECURSIVE residencies_of(_, _)
residencies_of(states, onlyActive) ==
    IF states = <<>> THEN <<>>
    ELSE IF onlyActive /\ ~Head(states).is_active
         THEN residencies_of(Tail(states), onlyActive)
         ELSE <<Head(states).residency>> \o residencies_of(Tail(states), onlyActive)

total_residency(states, bld) == i64_sum(residencies_of(states, FALSE), bld)

active_residency(states, bld) == i64_sum(residencies_of(states, TRUE), bld)

usage_unguarded(states, bld) ==
    LET total == total_residency(states, bld)
        act == active_residency(states, bld)
    IN  IF total.panic \/ act.panic THEN Panicked
        ELSE Returned(f64_mul(f64_div(as_f64(act.val), as_f64(total.val)),
                              as_f64(100)))

usage(states, bld) ==
    LET total == total_residency(states, bld)
    IN  IF total.panic THEN Panicked
        ELSE IF total.val = 0 THEN Returned(F64Zero)
        ELSE LET act == active_residency(states, bld)
             IN IF act.panic THEN Panicked
                ELSE Returned(f64_mul(f64_div(as_f64(act.val), as_f64(total.val)),
                                      as_f64(100)))

(***************************************************************************)
(* The channel under test: any value of the public struct.                 *)
(***************************************************************************)
Residencies == {I64Min, -1, 0, 1, I64Max}

TestNames == {IDLE, <<"P","1">>, <<"o","f","f">>}

TestStates == {GPUState(n, r, a) : n \in TestNames, r \in Residencies, a \in BOOLEAN}

RECURSIVE SeqsUpTo(_, _)
SeqsUpTo(S, n) ==
    IF n = 0 THEN {<<>>}
    ELSE LET shorter == SeqsUpTo(S, n - 1)
         IN shorter \cup {Append(q, x) : q \in shorter, x \in S}

LibIdle ==
    /\ subs = <<>>
    /\ cfobjs = <<>>
    /\ nullReleases = 0
    /\ reports = {}
    /\ samples = {}
    /\ last = [op |-> "none"]
    /\ script = <<>>

ParseIdle ==
    /\ input = <<>>
    /\ parsed = [kind |-> "none"]

MainIdle ==
    /\ pc = "idle"
    /\ m = <<>>
    /\ calls = <<>>
    /\ exit = [status |-> "none"]
    /\ output = <<>>

InitChan ==
    /\ build \in Builds
    /\ LibIdle
    /\ ParseIdle
    /\ MainIdle
    /\ chan \in SeqsUpTo(TestStates, MaxStates)
    /\ outTotal = NotCalled
    /\ outActive = NotCalled
    /\ outUsage = NotCalled

CallTotalResidency ==
    /\ ~outTotal.called
    /\ outTotal' = Called(total_residency(chan, build))
    /\ UNCHANGED <<build, chan, outActive, outUsage, libVars, parseVars, mainVars>>

CallActiveResidency ==
    /\ ~outActive.called
    /\ outActive' = Called(active_residency(chan, build))
    /\ UNCHANGED <<build, chan, outTotal, outUsage, libVars, parseVars, mainVars>>

CallUsage ==
    /\ ~outUsage.called
    /\ outUsage' = Called(usage(chan, build))
    /\ UNCHANGED <<build, chan, outTotal, outActive, libVars, parseVars, mainVars>>

NextChan == CallTotalResidency \/ CallActiveResidency \/ CallUsage

SpecChan == InitChan /\ [][NextChan]_vars

(***************************************************************************)
(* The IOReport wrapper.  A pointer is a natural number, 0 the null        *)
(* pointer.  Each method is an operator from the values the foreign        *)
(* functions return to the foreign calls made, in order, and the result.   *)
(***************************************************************************)
Err(e) == [ok |-> FALSE, err |-> e, val |-> <<>>]

Ok(v) == [ok |-> TRUE, err |-> "", val |-> v]

\* IOReport::new without the null test on the subscription.
IOReport_new_unchecked(chans_raw, sub_raw) ==
    IF chans_raw = 0
    THEN [calls |-> <<"IOReportCopyChannelsInGroup">>,
          result |-> Err("ChannelsUnavailable")]
    ELSE [calls |-> <<"IOReportCopyChannelsInGroup", "IOReportCreateSubscription">>,
          result |-> Ok([subscription |-> sub_raw, channels |-> chans_raw])]

\* IOReport::new: chans_raw is what IOReportCopyChannelsInGroup returns and
\* sub_raw what IOReportCreateSubscription returns if it is called.
IOReport_new(chans_raw, sub_raw) ==
    IF chans_raw = 0
    THEN [calls |-> <<"IOReportCopyChannelsInGroup">>,
          result |-> Err("ChannelsUnavailable")]
    ELSE IF sub_raw = 0
    THEN [calls |-> <<"IOReportCopyChannelsInGroup", "IOReportCreateSubscription">>,
          result |-> Err("SubscriptionFailed")]
    ELSE [calls |-> <<"IOReportCopyChannelsInGroup", "IOReportCreateSubscription">>,
          result |-> Ok([subscription |-> sub_raw, channels |-> chans_raw])]

\* IOReport::sample: raw is what IOReportCreateSamples returns.
IOReport_sample(self, raw) ==
    [calls |-> <<"IOReportCreateSamples">>,
     args |-> [sub |-> self.subscription, channels |-> self.channels],
     result |-> IF raw = 0 THEN Err("SampleFailed") ELSE Ok(raw)]

\* Drop for IOReport that releases nothing.
drop_IOReport_leak(self) == <<>>

\* Drop for IOReport: the handles CFRelease is called on.
drop_IOReport(self) ==
    IF self.subscription # 0 THEN <<self.subscription>> ELSE <<>>

(***************************************************************************)
(* IOReport::get_delta.  The service's delta is [null, has_channels,       *)
(* channels]; an entry of its channel array is [group, subgroup, states]   *)
(* with states the sequence the state accessors read: IOReportStateGetCount*)
(* is its length, index idx (from 0) is element idx + 1.                   *)
(***************************************************************************)
IOReportStateGetCount(dict) == Len(dict.states)

IOReportStateGetNameForIndex(dict, idx) == dict.states[idx + 1].name

IOReportStateGetResidency(dict, idx) == dict.states[idx + 1].residency

\* The inner loop, for idx in 0..state_count, pushing onto states.
RECURSIVE get_delta_states(_, _, _, _)
get_delta_states(dict, idx, state_count, states) ==
    IF idx >= state_count THEN states
    ELSE LET state_name == IOReportStateGetNameForIndex(dict, idx)
             residency == IOReportStateGetResidency(dict, idx)
         IN get_delta_states(dict, idx + 1, state_count,
                Append(states, GPUState(state_name, residency,
                                        is_active_name(state_name))))

\* The outer loop with the group test of main.rs, which skips other groups.
RECURSIVE get_delta_channels_filtered(_, _, _)
get_delta_channels_filtered(channel_array, i, results) ==
    IF i > Len(channel_array) THEN results
    ELSE LET dict == channel_array[i]
         IN get_delta_channels_filtered(channel_array, i + 1,
                IF dict.group # <<"G","P","U"," ","S","t","a","t","s">>
                THEN results
                ELSE Append(results,
                       [group |-> dict.group, subgroup |-> dict.subgroup,
                        states |-> get_delta_states(dict, 0,
                                       IOReportStateGetCount(dict), <<>>)]))

\* The outer loop over channel_array.iter(), pushing onto results.
RECURSIVE get_delta_channels(_, _, _)
get_delta_channels(channel_array, i, results) ==
    IF i > Len(channel_array) THEN results
    ELSE LET dict == channel_array[i]
         IN get_delta_channels(channel_array, i + 1,
                Append(results,
                       [group |-> dict.group, subgroup |-> dict.subgroup,
                        states |-> get_delta_states(dict, 0,
                                       IOReportStateGetCount(dict), <<>>)]))

\* get_delta with one test for both failures.
get_delta_merged(delta) ==
    IF delta.null \/ ~delta.has_channels
    THEN [calls |-> <<"IOReportCreateSamplesDelta", "CFDictionaryGetValue">>,
          extracted |-> 0, result |-> Err("DeltaFailed")]
    ELSE [calls |-> <<"IOReportCreateSamplesDelta", "CFDictionaryGetValue">>,
          extracted |-> Len(delta.channels),
          result |-> Ok(get_delta_channels(delta.channels, 1, <<>>))]

get_delta(delta) ==
    IF delta.null
    THEN [calls |-> <<"IOReportCreateSamplesDelta">>, extracted |-> 0,
          result |-> Err("DeltaFailed")]
    ELSE IF ~delta.has_channels
    THEN [calls |-> <<"IOReportCreateSamplesDelta", "CFDictionaryGetValue">>,
          extracted |-> 0, result |-> Err("MissingChannelArray")]
    ELSE [calls |-> <<"IOReportCreateSamplesDelta", "CFDictionaryGetValue">>,
          extracted |-> Len(delta.channels),
          result |-> Ok(get_delta_channels(delta.channels, 1, <<>>))]

(***************************************************************************)
(* What the service may answer to IOReportCreateSamplesDelta.              *)
(***************************************************************************)
NameAlphabet == {"o", "O", "f", "F", "1"}

RECURSIVE StringsUpTo(_, _)
StringsUpTo(A, n) ==
    IF n = 0 THEN {<<>>}
    ELSE LET shorter == StringsUpTo(A, n - 1)
         IN shorter \cup {Append(q, x) : q \in shorter, x \in A}

FixedNames ==
    { IDLE, <<"I","d","l","e">>, <<"i","d","l","e">>, DOWN, <<"d","o","w","n">>,
      <<"D","o","w","n","1">>, <<"P","1">>, <<"T","A","K","E","O","F","F">>,
      <<"o","f","f","-","i","d","l","e","-","c","u","s","t","o","m">>,
      <<"I","D","L">>, <<"D","O","W","-","N">> }

ServiceNames == FixedNames \cup StringsUpTo(NameAlphabet, MaxNameLen)

GPU == <<"G","P","U"," ","S","t","a","t","s">>

PERF == <<"G","P","U"," ","P","e","r","f","o","r","m","a","n","c","e",
          " ","S","t","a","t","e","s">>

ServiceEntries ==
    { [group |-> GPU, subgroup |-> PERF,
       states |-> <<[name |-> IDLE, residency |-> 3], [name |-> <<"P","1">>, residency |-> 1]>>],
      [group |-> GPU, subgroup |-> PERF,
       states |-> <<[name |-> <<"P","1">>, residency |-> 1], [name |-> IDLE, residency |-> 3]>>],
      [group |-> GPU, subgroup |-> <<"X">>,
       states |-> <<[name |-> <<"P","1">>, residency |-> 0], [name |-> <<"P","1">>, residency |-> 0],
                    [name |-> <<"o","f","f">>, residency |-> -1]>>],
      [group |-> <<"C","P","U">>, subgroup |-> PERF, states |-> <<>>] }

Delta(chs) == [null |-> FALSE, has_channels |-> TRUE, channels |-> chs]

ServiceDeltas ==
    {[null |-> TRUE, has_channels |-> FALSE, channels |-> <<>>],
     [null |-> FALSE, has_channels |-> FALSE, channels |-> <<>>]}
    \cup {Delta(chs) : chs \in SeqsUpTo(ServiceEntries, MaxEntries)}
    \cup {Delta(<<[group |-> GPU, subgroup |-> PERF,
                   states |-> <<[name |-> n, residency |-> 1]>>]>>) : n \in ServiceNames}

(***************************************************************************)
(* The library's operations against the service.                           *)
(***************************************************************************)
\* The answers the service gives in the lifecycle specification.
LifecycleDeltas ==
    {[null |-> TRUE, has_channels |-> FALSE, channels |-> <<>>],
     [null |-> FALSE, has_channels |-> FALSE, channels |-> <<>>]}
    \cup {Delta(<<e>>) : e \in ServiceEntries}

InitLib ==
    /\ build = "release"
    /\ chan = <<>>
    /\ outTotal = NotCalled
    /\ outActive = NotCalled
    /\ outUsage = NotCalled
    /\ LibIdle
    /\ ParseIdle
    /\ MainIdle

\* CFRelease on each handle of hs, in order.
RECURSIVE Released(_, _)
Released(ss, hs) ==
    IF hs = <<>> THEN ss
    ELSE IF Head(hs) = 0 THEN Released(ss, Tail(hs))
    ELSE Released([ss EXCEPT ![Head(hs)] = @ + 1], Tail(hs))

NullsIn(hs) == Cardinality({i \in 1..Len(hs) : hs[i] = 0})

\* The CFDictionary wrapper of CF object c is dropped.
CFDropped(objs, c) == [objs EXCEPT ![c].rc = @ - 1]

New ==
    /\ Len(cfobjs) < MaxCF
    /\ Len(subs) < MaxSubs
    /\ \E chansOk \in BOOLEAN, subOk \in BOOLEAN :
         LET chans_raw == IF chansOk THEN Len(cfobjs) + 1 ELSE 0
             sub_raw == IF subOk THEN Len(subs) + 1 ELSE 0
             r == IOReport_new(chans_raw, sub_raw)
             asked == Len(r.calls) = 2
             made == IF chans_raw # 0
                     THEN Append(cfobjs, [kind |-> "channels", sub |-> 0, rc |-> 1])
                     ELSE cfobjs
         IN /\ last' = [op |-> "new", chans_raw |-> chans_raw,
                        sub_raw |-> IF asked THEN sub_raw ELSE 0,
                        calls |-> r.calls, result |-> r.result]
            /\ subs' = IF asked /\ sub_raw # 0 THEN Append(subs, 0) ELSE subs
            /\ IF r.result.ok
               THEN /\ reports' = reports \cup {r.result.val}
                    /\ cfobjs' = made
               ELSE /\ reports' = reports
                    /\ cfobjs' = IF chans_raw # 0 THEN CFDropped(made, chans_raw)
                                 ELSE made
    /\ UNCHANGED <<build, chanVars, nullReleases, samples, script, parseVars, mainVars>>

Sample ==
    /\ Len(cfobjs) < MaxCF
    /\ \E self \in reports, okRaw \in BOOLEAN :
         LET raw == IF okRaw THEN Len(cfobjs) + 1 ELSE 0
             r == IOReport_sample(self, raw)
         IN /\ last' = [op |-> "sample", self |-> self, raw |-> raw, args |-> r.args,
                        calls |-> r.calls, result |-> r.result]
            /\ IF raw # 0
               THEN cfobjs' = Append(cfobjs, [kind |-> "sample",
                                              sub |-> r.args.sub, rc |-> 1])
               ELSE cfobjs' = cfobjs
            /\ samples' = IF r.result.ok THEN samples \cup {r.result.val} ELSE samples
    /\ UNCHANGED <<build, chanVars, subs, nullReleases, reports, script, parseVars, mainVars>>

GetDeltaOf(deltas) ==
    /\ \E sample1 \in samples, sample2 \in samples, delta \in deltas :
         LET r == get_delta(delta)
         IN last' = [op |-> "get_delta", sample1 |-> sample1, sample2 |-> sample2,
                     delta |-> delta, calls |-> r.calls,
                     extracted |-> r.extracted, result |-> r.result]
    /\ UNCHANGED <<build, chanVars, subs, cfobjs, nullReleases, reports, samples, script, parseVars, mainVars>>

GetDelta == GetDeltaOf(LifecycleDeltas)

DropReport ==
    /\ \E self \in reports :
         LET hs == drop_IOReport(self)
         IN /\ subs' = Released(subs, hs)
            /\ nullReleases' = nullReleases + NullsIn(hs)
            /\ cfobjs' = CFDropped(cfobjs, self.channels)
            /\ reports' = reports \ {self}
            /\ last' = [op |-> "drop", self |-> self, released |-> hs]
    /\ UNCHANGED <<build, chanVars, samples, script, parseVars, mainVars>>

DropSample ==
    /\ \E s \in samples :
         /\ cfobjs' = CFDropped(cfobjs, s)
         /\ samples' = samples \ {s}
         /\ last' = [op |-> "drop_sample", sample |-> s]
    /\ UNCHANGED <<build, chanVars, subs, nullReleases, reports, script, parseVars, mainVars>>

NextLib == New \/ Sample \/ GetDelta \/ DropReport \/ DropSample

SpecLib == InitLib /\ [][NextLib]_vars

(***************************************************************************)
(* get_delta alone, over everything the service may answer, from the       *)
(* state in which one subscription has produced two samples.               *)
(***************************************************************************)
InitDelta ==
    /\ build = "release"
    /\ chan = <<>>
    /\ outTotal = NotCalled
    /\ outActive = NotCalled
    /\ outUsage = NotCalled
    /\ subs = <<0>>
    /\ cfobjs = <<[kind |-> "channels", sub |-> 0, rc |-> 1],
                  [kind |-> "sample", sub |-> 1, rc |-> 1],
                  [kind |-> "sample", sub |-> 1, rc |-> 1]>>
    /\ nullReleases = 0
    /\ reports = {[subscription |-> 1, channels |-> 1]}
    /\ samples = {2, 3}
    /\ last = [op |-> "none"]
    /\ script \in ServiceDeltas
    /\ ParseIdle
    /\ MainIdle

GetDeltaAny == GetDeltaOf({script})

NextDelta == GetDeltaAny

SpecDelta == InitDelta /\ [][NextDelta]_vars

(***************************************************************************)
(* parse_duration (src/src/lib.rs).  A Duration is [secs, millis].         *)
(***************************************************************************)
U64Max == Pow2(U64Bits) - 1

Digits == <<"0","1","2","3","4","5","6","7","8","9">>

IsDigit(c) == \E i \in 1..Len(Digits) : Digits[i] = c

DigitVal(c) == (CHOOSE i \in 1..Len(Digits) : Digits[i] = c) - 1

is_ascii_alphabetic(c) ==
    \E i \in 1..Len(Lowers) : c = Lowers[i] \/ c = Uppers[i]

char_to_ascii_lowercase(c) ==
    IF \E i \in 1..Len(Uppers) : Uppers[i] = c
    THEN Lowers[CHOOSE i \in 1..Len(Uppers) : Uppers[i] = c]
    ELSE c

to_ascii_lowercase(s) == [i \in 1..Len(s) |-> char_to_ascii_lowercase(s[i])]

is_whitespace(c) == c \in {" ", "\t", "\n", "\r"}

RECURSIVE trim_start(_)
trim_start(s) ==
    IF s # <<>> /\ is_whitespace(Head(s)) THEN trim_start(Tail(s)) ELSE s

RECURSIVE trim_end(_)
trim_end(s) ==
    IF s # <<>> /\ is_whitespace(s[Len(s)])
    THEN trim_end(SubSeq(s, 1, Len(s) - 1)) ELSE s

trim(s) == trim_end(trim_start(s))

ends_with(s, suffix) ==
    /\ Len(s) >= Len(suffix)
    /\ SubSeq(s, Len(s) - Len(suffix) + 1, Len(s)) = suffix

\* What strip_suffix returns when it returns Some.
stripped(s, suffix) == SubSeq(s, 1, Len(s) - Len(suffix))

\* str::parse::<u64>: None for an invalid or out-of-range numeral.  A single
\* leading "+" is accepted, a "-" is not.
RECURSIVE parse_digits(_, _, _)
parse_digits(s, i, acc) ==
    IF i > Len(s) THEN [some |-> TRUE, val |-> acc]
    ELSE IF ~IsDigit(s[i]) THEN [some |-> FALSE, val |-> 0]
    ELSE IF acc * 10 + DigitVal(s[i]) > U64Max THEN [some |-> FALSE, val |-> 0]
    ELSE parse_digits(s, i + 1, acc * 10 + DigitVal(s[i]))

parse_u64(s) ==
    IF s = <<>> THEN [some |-> FALSE, val |-> 0]
    ELSE IF Len(s) = 1 /\ s[1] \in {"+", "-"} THEN [some |-> FALSE, val |-> 0]
    ELSE IF s[1] = "+" THEN parse_digits(Tail(s), 1, 0)
    ELSE parse_digits(s, 1, 0)

PErr(e, u) == [kind |-> "err", err |-> e, unit |-> u, secs |-> 0, millis |-> 0]

PPanic == [kind |-> "panic", err |-> "", unit |-> <<>>, secs |-> 0, millis |-> 0]

POk(d) == [kind |-> "ok", err |-> "", unit |-> <<>>, secs |-> d.secs, millis |-> d.millis]

from_millis(ms) == [secs |-> ms \div 1000, millis |-> ms % 1000]

from_secs(secs) == [secs |-> secs, millis |-> 0]

\* Ok(Duration::from_secs(parse_num(num)? * k)) with the build's u64 overflow.
secs_times(num, k, bld) ==
    LET n == parse_u64(num)
    IN  IF ~n.some THEN PErr("InvalidNumber", <<>>)
        ELSE IF n.val * k <= U64Max THEN POk(from_secs(n.val * k))
        ELSE IF bld = "debug" THEN PPanic
        ELSE POk(from_secs((n.val * k) % Pow2(U64Bits)))

parse_duration(str, bld) ==
    LET s == trim(str)
        normalized == to_ascii_lowercase(s)
    IN  IF s = <<>> THEN PErr("Empty", <<>>)
        ELSE IF ends_with(normalized, <<"m","s">>)
        THEN LET n == parse_u64(stripped(normalized, <<"m","s">>))
             IN IF n.some THEN POk(from_millis(n.val))
                ELSE PErr("InvalidNumber", <<>>)
        ELSE IF ends_with(normalized, <<"s">>)
        THEN secs_times(stripped(normalized, <<"s">>), 1, bld)
        ELSE IF ends_with(normalized, <<"m">>)
        THEN secs_times(stripped(normalized, <<"m">>), 60, bld)
        ELSE IF ends_with(normalized, <<"h">>)
        THEN secs_times(stripped(normalized, <<"h">>), 3600, bld)
        ELSE IF \E i \in 1..Len(normalized) : is_ascii_alphabetic(normalized[i])
        THEN PErr("UnsupportedUnit", normalized)
        ELSE LET n == parse_u64(normalized)
             IN IF n.some THEN POk(from_millis(n.val))
                ELSE PErr("InvalidNumber", <<>>)

InputAlphabet == {"0", "1", "9", "+", " ", "m", "M", "s", "S", "h", "x"}

InitParse ==
    /\ build \in Builds
    /\ chan = <<>>
    /\ outTotal = NotCalled
    /\ outActive = NotCalled
    /\ outUsage = NotCalled
    /\ LibIdle
    /\ input \in StringsUpTo(InputAlphabet, MaxInputLen)
    /\ parsed = [kind |-> "none"]
    /\ MainIdle

ParseDuration ==
    /\ parsed.kind = "none"
    /\ parsed' = parse_duration(input, build)
    /\ UNCHANGED <<build, chanVars, libVars, input, mainVars>>

NextParse == ParseDuration

SpecParse == InitParse /\ [][NextParse]_vars

(***************************************************************************)
(* The program (src/src/main.rs).  It calls the foreign functions itself   *)
(* and does not use the IOReport wrapper.  Each foreign call is one step,  *)
(* with the service's answer chosen in the step.  Wrapping a null pointer  *)
(* (wrap_under_create_rule, wrap_under_get_rule) ends the process: by the  *)
(* wrapper's assertion or, without it, at the first use of the pointer.    *)
(***************************************************************************)
\* parse_time_arg: no trimming of case, no test for an empty string; a parse
\* error of the number is the error returned.
parse_time_arg(str, bld) ==
    LET s == trim(str)
        secsOf(num, k) ==
            LET r == secs_times(num, k, bld)
            IN IF r.kind = "err" THEN PErr("ParseIntError", <<>>) ELSE r
        millisOf(num) ==
            LET n == parse_u64(num)
            IN IF n.some THEN POk(from_millis(n.val))
               ELSE PErr("ParseIntError", <<>>)
    IN  IF ends_with(s, <<"m","s">>) THEN millisOf(stripped(s, <<"m","s">>))
        ELSE IF ends_with(s, <<"s">>) THEN secsOf(stripped(s, <<"s">>), 1)
        ELSE IF ends_with(s, <<"m">>) THEN secsOf(stripped(s, <<"m">>), 60)
        ELSE IF ends_with(s, <<"h">>) THEN secsOf(stripped(s, <<"h">>), 3600)
        ELSE millisOf(s)

\* The name test of main's loop: on the name as reported, not upper-cased.
main_is_active(state_name) ==
    /\ ~contains(state_name, IDLE)
    /\ ~contains(state_name, OFF)
    /\ ~contains(state_name, DOWN)

\* main's inner loop: total += residency; active += residency for the names
\* that pass the test.  acc is [panic, total, active].
RECURSIVE main_sums(_, _, _, _)
main_sums(dict, idx, acc, bld) ==
    IF acc.panic \/ idx >= IOReportStateGetCount(dict) THEN acc
    ELSE LET state_name == IOReportStateGetNameForIndex(dict, idx)
             residency == IOReportStateGetResidency(dict, idx)
             total == i64_add(acc.total, residency, bld)
             active == IF main_is_active(state_name)
                       THEN i64_add(acc.active, residency, bld)
                       ELSE Returned(acc.active)
         IN main_sums(dict, idx + 1,
                [panic |-> total.panic \/ active.panic,
                 total |-> total.val, active |-> active.val], bld)

\* (active as f64 / total.max(1) as f64) * 100.0
main_usage(active, total) ==
    f64_mul(f64_div(as_f64(active), as_f64(IF total > 1 THEN total ELSE 1)),
            as_f64(100))

\* main's outer loop: the figures printed per channel of the wanted group,
\* up to a panic.
RECURSIVE main_channels(_, _, _, _)
main_channels(channel_array, i, out, bld) ==
    IF out.panic \/ i > Len(channel_array) THEN out
    ELSE LET dict == channel_array[i]
         IN IF dict.group # GPU \/ dict.subgroup # PERF
            THEN main_channels(channel_array, i + 1, out, bld)
            ELSE LET sums == main_sums(dict, 0,
                                 [panic |-> FALSE, total |-> 0, active |-> 0], bld)
                 IN IF sums.panic
                    THEN [panic |-> TRUE, lines |-> out.lines]
                    ELSE main_channels(channel_array, i + 1,
                           [panic |-> FALSE,
                            lines |-> Append(out.lines,
                               [group |-> dict.group, subgroup |-> dict.subgroup,
                                total |-> sums.total, active |-> sums.active,
                                usage |-> main_usage(sums.active, sums.total)])],
                           bld)

\* The arguments of the foreign calls, from main's locals.
sample_args(loc) == <<loc.subscription, loc.channels>>

delta_args_swapped(loc) == <<loc.sample2, loc.sample1>>

delta_args(loc) == <<loc.sample1, loc.sample2>>

Call(fn, a, ret) == [fn |-> fn, a |-> a, ret |-> ret]

Exit(status, msg) == [status |-> status, msg |-> msg]

\* How the process ends when a null pointer is wrapped or passed on.
Faults == {"panic", "segfault"}

TimeArgs ==
    { <<"1","0","0","0","m","s">>, <<"1","s">>, <<"1","0","0">>, <<"2","S">>,
      <<"9","9","m">>, <<>> }

MainDeltas ==
    {[null |-> TRUE, has_channels |-> FALSE, channels |-> <<>>],
     [null |-> FALSE, has_channels |-> FALSE, channels |-> <<>>]}
    \cup {Delta(chs) : chs \in SeqsUpTo(ServiceEntries, MaxEntries)}

InitMain ==
    /\ build \in Builds
    /\ chan = <<>>
    /\ outTotal = NotCalled
    /\ outActive = NotCalled
    /\ outUsage = NotCalled
    /\ LibIdle
    /\ ParseIdle
    /\ pc = "args"
    /\ \E t \in TimeArgs :
         m = [time |-> t, interval |-> from_millis(0), channels |-> 0,
              subscription |-> 0, sample1 |-> 0, sample2 |-> 0,
              delta |-> [null |-> TRUE, has_channels |-> FALSE, channels |-> <<>>]]
    /\ calls = <<>>
    /\ exit = Exit("running", "")
    /\ output = <<>>

Stop(e) == pc' = "done" /\ exit' = e

MainArgs ==
    /\ pc = "args"
    /\ LET r == parse_time_arg(m.time, build)
       IN IF r.kind = "ok"
          THEN /\ m' = [m EXCEPT !.interval = [secs |-> r.secs, millis |-> r.millis]]
               /\ pc' = "resolve"
               /\ exit' = exit
          ELSE /\ m' = m
               /\ Stop(IF r.kind = "panic" THEN Exit("panic", "overflow")
                       ELSE Exit("err", "Invalid time"))
    /\ UNCHANGED <<build, chanVars, libVars, parseVars, calls, output>>

MainResolve ==
    /\ pc = "resolve"
    /\ \E chans_raw \in {0, 1} :
         /\ calls' = Append(calls, Call("IOReportCopyChannelsInGroup", <<>>, chans_raw))
         /\ m' = [m EXCEPT !.channels = chans_raw]
         /\ IF chans_raw = 0
            THEN Stop(Exit("err", "Failed to get channels"))
            ELSE pc' = "subscribe" /\ exit' = exit
    /\ UNCHANGED <<build, chanVars, libVars, parseVars, output>>

MainSubscribe ==
    /\ pc = "subscribe"
    /\ \E subscription \in {0, 1} :
         /\ calls' = Append(calls, Call("IOReportCreateSubscription",
                                        <<m.channels>>, subscription))
         /\ m' = [m EXCEPT !.subscription = subscription]
         /\ IF subscription = 0
            THEN Stop(Exit("err", "Failed to create subscription"))
            ELSE pc' = "sample1" /\ exit' = exit
    /\ UNCHANGED <<build, chanVars, libVars, parseVars, output>>

MainSample1 ==
    /\ pc = "sample1"
    /\ \E raw \in {0, 1} :
         /\ calls' = Append(calls, Call("IOReportCreateSamples", sample_args(m), raw))
         /\ m' = [m EXCEPT !.sample1 = raw]
    /\ pc' = "sleep"
    /\ UNCHANGED <<build, chanVars, libVars, parseVars, exit, output>>

MainSleep ==
    /\ pc = "sleep"
    /\ calls' = Append(calls, Call("sleep", <<m.interval>>, 1))
    /\ pc' = "sample2"
    /\ UNCHANGED <<build, chanVars, libVars, parseVars, m, exit, output>>

MainSample2 ==
    /\ pc = "sample2"
    /\ \E raw \in {0, 2} :
         /\ calls' = Append(calls, Call("IOReportCreateSamples", sample_args(m), raw))
         /\ m' = [m EXCEPT !.sample2 = raw]
    /\ pc' = "delta"
    /\ UNCHANGED <<build, chanVars, libVars, parseVars, exit, output>>

\* IOReportCreateSamplesDelta and the wrapping of its result.  Given a null
\* sample the service may also fault.
MainDelta ==
    /\ pc = "delta"
    /\ \/ \E delta \in MainDeltas :
            /\ calls' = Append(calls, Call("IOReportCreateSamplesDelta", delta_args(m),
                                           IF delta.null THEN 0 ELSE 1))
            /\ m' = [m EXCEPT !.delta = delta]
            /\ IF delta.null
               THEN \E f \in Faults : Stop(Exit(f, "null delta"))
               ELSE pc' = "lookup" /\ exit' = exit
       \/ /\ 0 \in {m.sample1, m.sample2}
          /\ calls' = Append(calls, Call("IOReportCreateSamplesDelta", delta_args(m), 0))
          /\ m' = m
          /\ Stop(Exit("segfault", "null sample"))
    /\ UNCHANGED <<build, chanVars, libVars, parseVars, output>>

\* CFDictionaryGetValue for "IOReportChannels" and the wrapping of its result.
MainLookup ==
    /\ pc = "lookup"
    /\ calls' = Append(calls, Call("CFDictionaryGetValue", <<1>>,
                                   IF m.delta.has_channels THEN 1 ELSE 0))
    /\ IF m.delta.has_channels
       THEN pc' = "extract" /\ exit' = exit
       ELSE \E f \in Faults : Stop(Exit(f, "null channel array"))
    /\ UNCHANGED <<build, chanVars, libVars, parseVars, m, output>>

MainExtract ==
    /\ pc = "extract"
    /\ LET r == main_channels(m.delta.channels, 1,
                              [panic |-> FALSE, lines |-> <<>>], build)
       IN /\ output' = r.lines
          /\ Stop(IF r.panic THEN Exit("panic", "overflow") ELSE Exit("ok", ""))
    /\ UNCHANGED <<build, chanVars, libVars, parseVars, m, calls>>

NextMain ==
    \/ MainArgs
    \/ MainResolve
    \/ MainSubscribe
    \/ MainSample1
    \/ MainSleep
    \/ MainSample2
    \/ MainDelta
    \/ MainLookup
    \/ MainExtract

SpecMain == InitMain /\ [][NextMain]_vars

(***************************************************************************)
(* The two computations of a channel's usage on one list of (state name,   *)
(* residency) pairs: the loop of main.rs, and the library's get_delta      *)
(* classification followed by GPUChannel::usage.  The list is the states   *)
(* of one channel entry of the wanted group, held in script.               *)
(***************************************************************************)
UsageNames == {IDLE, <<"I","d","l","e">>, <<"P","1">>, <<"o","f","f">>}

UsagePairs == {[name |-> n, residency |-> r] : n \in UsageNames, r \in Residencies}

InitUsage ==
    /\ build \in Builds
    /\ chan = <<>>
    /\ outTotal = NotCalled
    /\ outActive = NotCalled
    /\ outUsage = NotCalled
    /\ subs = <<>>
    /\ cfobjs = <<>>
    /\ nullReleases = 0
    /\ reports = {}
    /\ samples = {}
    /\ last = [op |-> "none"]
    /\ \E sts \in SeqsUpTo(UsagePairs, MaxStates) :
          script = [group |-> GPU, subgroup |-> PERF, states |-> sts]
    /\ ParseIdle
    /\ MainIdle

\* The library: the states as get_delta builds them, then usage().
LibraryFigures ==
    /\ ~outUsage.called
    /\ LET states == get_delta_states(script, 0, IOReportStateGetCount(script), <<>>)
       IN /\ chan' = states
          /\ outUsage' = Called(usage(states, build))
    /\ UNCHANGED <<build, outTotal, outActive, libVars, parseVars, mainVars>>

\* The program: the body of main's loop for this channel.
MainFigures ==
    /\ exit.status = "none"
    /\ LET r == main_channels(<<script>>, 1, [panic |-> FALSE, lines |-> <<>>], build)
       IN /\ output' = r.lines
          /\ exit' = Exit(IF r.panic THEN "panic" ELSE "ok", "")
    /\ UNCHANGED <<build, chanVars, libVars, parseVars, pc, m, calls>>

NextUsage == LibraryFigures \/ MainFigures

SpecUsage == InitUsage /\ [][NextUsage]_vars

(***************************************************************************)
(* total_residency() on a channel and on a reordering of its states.       *)
(***************************************************************************)
PermStates == {GPUState(<<"P","1">>, r, TRUE) : r \in Residencies}

InitPerm ==
    /\ build \in Builds
    /\ chan \in SeqsUpTo(PermStates, MaxPermLen)
    /\ outTotal = NotCalled
    /\ outActive = NotCalled
    /\ outUsage = NotCalled
    /\ LibIdle
    /\ ParseIdle
    /\ MainIdle

\* total_residency() on the channel with its states in another order.
CallTotalResidencyReordered ==
    /\ last.op = "none"
    /\ \E p \in Permutations(1..Len(chan)) :
         LET states == [i \in 1..Len(chan) |-> chan[p[i]]]
         IN last' = [op |-> "total_residency", states |-> states,
                     out |-> total_residency(states, build)]
    /\ UNCHANGED <<build, chanVars, subs, cfobjs, nullReleases, reports, samples,
                   script, parseVars, mainVars>>

NextPerm == CallTotalResidency \/ CallTotalResidencyReordered

SpecPerm == InitPerm /\ [][NextPerm]_vars

(***************************************************************************)
(* What the claims compare the code with: sums over the integers and a     *)
(* case-insensitive substring test that folds each character pair.         *)
(***************************************************************************)
RECURSIVE MathSum(_)
MathSum(rs) == IF rs = <<>> THEN 0 ELSE Head(rs) + MathSum(Tail(rs))

SameLetter(a, b) ==
    \/ a = b
    \/ \E i \in 1..Len(Lowers) : {a, b} = {Lowers[i], Uppers[i]}

ContainsIgnoringCase(s, pat) ==
    \E k \in 0..(Len(s) - Len(pat)) :
        \A j \in 1..Len(pat) : SameLetter(s[k + j], pat[j])

NameSaysActive(n) ==
    /\ ~ContainsIgnoringCase(n, <<"i","d","l","e">>)
    /\ ~ContainsIgnoringCase(n, <<"o","f","f">>)
    /\ ~ContainsIgnoringCase(n, <<"d","o","w","n">>)

RECURSIVE ResidenciesByName(_)
ResidenciesByName(states) ==
    IF states = <<>> THEN <<>>
    ELSE (IF NameSaysActive(Head(states).name)
          THEN <<Head(states).residency>> ELSE <<>>)
         \o ResidenciesByName(Tail(states))

\* C1: whenever total_residency() of a channel is 0, usage() of that channel
\* returns exactly 0.0 (a finite value, no panic), whatever the number of
\* states, their residencies and their is_active flags.
C1_UsageZeroWhenTotalZero ==
    (outUsage.called /\ outTotal.called /\ ~outTotal.panic /\ outTotal.val = 0)
        => (~outUsage.panic /\ outUsage.val = F64Zero)

\* C1's case: a channel of two states whose residencies cancel to a total of
\* 0 while an active state has a non-zero residency, and usage() was called.
C1_Witness ==
    /\ outUsage.called /\ outTotal.called
    /\ ~outTotal.panic /\ outTotal.val = 0
    /\ Len(chan) = 2
    /\ \E i \in 1..Len(chan) : chan[i].is_active /\ chan[i].residency # 0

\* C2: for any GPUChannel value, total_residency() is the sum of all
\* residencies and active_residency() is the sum over exactly the states
\* whose name, case-folded, contains none of "idle", "off", "down".
C2_SumsFollowNames ==
    /\ outTotal.called =>
          (~outTotal.panic /\ outTotal.val = MathSum(residencies_of(chan, FALSE)))
    /\ outActive.called =>
          (~outActive.panic /\ outActive.val = MathSum(ResidenciesByName(chan)))

\* The states of every channel a get_delta result holds.
StatesOf(chs) == {chs[i].states[j] : <<i, j>> \in
                     {<<i, j>> \in (1..Len(chs)) \X (1..8) : j <= Len(chs[i].states)}}

GotDelta == last.op = "get_delta" /\ last.result.ok

\* C3: every state IOReport::get_delta produces is active if and only if its
\* name, compared case-insensitively, contains none of IDLE, OFF, DOWN as a
\* substring; "off-idle-custom", "Idle" and "TAKEOFF" are inactive, "P1" is
\* active.
C3_ActiveIffNoMarker ==
    GotDelta =>
        \A st \in StatesOf(last.result.val) :
            /\ st.is_active <=> NameSaysActive(st.name)
            /\ st.name \in {<<"I","d","l","e">>, <<"T","A","K","E","O","F","F">>,
                   <<"o","f","f","-","i","d","l","e","-","c","u","s","t","o","m">>}
                 => ~st.is_active
            /\ st.name = <<"P","1">> => st.is_active

\* C3's case: get_delta returned a state whose mixed-case name holds a marker
\* inside a longer word, classified inactive.
C3_Witness ==
    /\ GotDelta
    /\ \E st \in StatesOf(last.result.val) :
          st.name = <<"o","f","f","-","i","d","l","e","-","c","u","s","t","o","m">>
          /\ ~st.is_active

\* C4: IOReport::new returns Err(ChannelsUnavailable) exactly when channel
\* resolution returns null, and then never asks for a subscription; it returns
\* Err(SubscriptionFailed) exactly when resolution succeeded and the
\* subscription handle is null; otherwise Ok with a non-null handle.  No live
\* IOReport holds a null handle.
C4_NewOutcomes ==
    /\ \A r \in reports : r.subscription # 0
    /\ last.op = "new" =>
        /\ (last.result = Err("ChannelsUnavailable")) <=> (last.chans_raw = 0)
        /\ last.chans_raw = 0 => last.calls = <<"IOReportCopyChannelsInGroup">>
        /\ (last.result = Err("SubscriptionFailed"))
              <=> (last.chans_raw # 0 /\ last.sub_raw = 0)
        /\ (last.chans_raw # 0 /\ last.sub_raw # 0) =>
              /\ last.result.ok
              /\ last.result.val.subscription = last.sub_raw
              /\ last.result.val \in reports

\* C4's case: a call of new was refused a subscription after its channels
\* resolved, while an earlier IOReport is alive.
C4_Witness ==
    /\ last.op = "new"
    /\ last.result = Err("SubscriptionFailed")
    /\ last.calls = <<"IOReportCopyChannelsInGroup", "IOReportCreateSubscription">>
    /\ reports # {}

\* C5: get_delta returns Err(DeltaFailed) exactly when the service's delta is
\* null and Err(MissingChannelArray) exactly when a non-null delta has no
\* channel list; the channel list is looked up only after the null test
\* passed, and a failing call extracts and returns no channel.
C5_DeltaFailuresApart ==
    last.op = "get_delta" =>
        /\ (last.result = Err("DeltaFailed")) <=> last.delta.null
        /\ (last.result = Err("MissingChannelArray"))
              <=> (~last.delta.null /\ ~last.delta.has_channels)
        /\ last.delta.null => last.calls = <<"IOReportCreateSamplesDelta">>
        /\ ~last.result.ok => (last.extracted = 0 /\ last.result.val = <<>>)

\* C5's case: the service produced a delta without the channel list and
\* get_delta reported it.
C5_Witness ==
    /\ last.op = "get_delta"
    /\ ~last.delta.null /\ ~last.delta.has_channels
    /\ last.result = Err("MissingChannelArray")

\* C6: every subscription handle the service returned non-null is released
\* exactly once, at the drop of the IOReport that owns it (not before, not
\* twice); CFRelease is never called on a null handle; with every IOReport
\* discarded no handle is left unreleased.
C6_ReleasedExactlyOnce ==
    /\ nullReleases = 0
    /\ \A h \in 1..Len(subs) :
          subs[h] = IF \E r \in reports : r.subscription = h THEN 0 ELSE 1
    /\ reports = {} => \A h \in 1..Len(subs) : subs[h] = 1

\* C6's case: two subscriptions were created, a new call failed in between or
\* after, and both IOReport values have been dropped.
C6_Witness ==
    /\ Len(subs) = 2
    /\ reports = {}
    /\ last.op = "drop"
    /\ \A h \in 1..Len(subs) : subs[h] = 1

\* C8: on success get_delta returns one GPUChannel per entry of the delta's
\* channel array, in the same order, each with the service's states for
\* indices 0..count-1 in index order, names and residencies as reported;
\* nothing is filtered, reordered or deduplicated.
C8_ExtractionKeepsEverything ==
    GotDelta =>
        LET arr == last.delta.channels
            res == last.result.val
        IN  /\ Len(res) = Len(arr)
            /\ \A i \in 1..Len(arr) :
                  /\ res[i].group = arr[i].group
                  /\ res[i].subgroup = arr[i].subgroup
                  /\ Len(res[i].states) = Len(arr[i].states)
                  /\ \A j \in 1..Len(arr[i].states) :
                        /\ res[i].states[j].name = arr[i].states[j].name
                        /\ res[i].states[j].residency = arr[i].states[j].residency

\* C8's case: the service reported the same group/subgroup twice, the second
\* entry with its states in another order, and a third group; all are returned.
C8_Witness ==
    /\ GotDelta
    /\ Len(last.result.val) = 2
    /\ last.result.val[1].group = last.result.val[2].group
    /\ last.result.val[1].subgroup = last.result.val[2].subgroup
    /\ Len(last.result.val[1].states) = 2
    /\ last.result.val[1].states[1].name = last.result.val[2].states[2].name
    /\ last.result.val[1].states[1].name # last.result.val[1].states[2].name

\* The claim's reading of an input: a decimal number (a non-empty run of
\* digits, with or without a "+" sign before it), its value over the
\* integers, and one of the units (in either case) or none.
AllDigits(s) == s # <<>> /\ \A i \in 1..Len(s) : IsDigit(s[i])

IsNumber(s) == AllDigits(s) \/ (s # <<>> /\ s[1] = "+" /\ AllDigits(Tail(s)))

RECURSIVE DigitsValue(_)
DigitsValue(s) ==
    IF s = <<>> THEN 0
    ELSE 10 * DigitsValue(SubSeq(s, 1, Len(s) - 1)) + DigitVal(s[Len(s)])

NumberValue(s) == IF s[1] = "+" THEN DigitsValue(Tail(s)) ELSE DigitsValue(s)

RECURSIVE WithoutOuterSpace(_)
WithoutOuterSpace(s) ==
    IF s = <<>> THEN s
    ELSE IF is_whitespace(s[1]) THEN WithoutOuterSpace(Tail(s))
    ELSE IF is_whitespace(s[Len(s)]) THEN WithoutOuterSpace(SubSeq(s, 1, Len(s) - 1))
    ELSE s

\* <<unit, seconds per unit>> of the units the claim names; 0 seconds per
\* unit stands for milliseconds.
UnitTable ==
    { <<<<>>, 0>>, <<<<"m","s">>, 0>>, <<<<"s">>, 1>>,
      <<<<"m">>, 60>>, <<<<"h">>, 3600>> }

SameWord(a, b) ==
    Len(a) = Len(b) /\ \A i \in 1..Len(a) : SameLetter(a[i], b[i])

\* The readings <<n, seconds per unit>> of s as a number of at most u64 followed by a unit.
Readings(s) ==
    { <<NumberValue(SubSeq(s, 1, k)), u[2]>> :
        <<k, u>> \in { <<k, u>> \in (1..Len(s)) \X UnitTable :
                          /\ IsNumber(SubSeq(s, 1, k))
                          /\ NumberValue(SubSeq(s, 1, k)) <= U64Max
                          /\ SameWord(SubSeq(s, k + 1, Len(s)), u[1]) } }

\* C7: a decimal number n of at most u64, optionally surrounded by whitespace,
\* parses to n milliseconds alone or with ms, n seconds with s, n * 60 seconds
\* with m and n * 3600 seconds with h (unit in either case); empty or blank
\* input gives Err(Empty); every other input gives Err(InvalidNumber) or
\* Err(UnsupportedUnit), never a duration and never a panic.
C7_ParseDurationTable ==
    parsed.kind # "none" =>
        LET s == WithoutOuterSpace(input)
        IN  IF s = <<>> THEN parsed.kind = "err" /\ parsed.err = "Empty"
            ELSE IF Readings(s) # {}
            THEN /\ parsed.kind = "ok"
                 /\ \A r \in Readings(s) :
                       IF r[2] = 0
                       THEN parsed.secs * 1000 + parsed.millis = r[1]
                            /\ parsed.millis < 1000
                       ELSE parsed.secs = r[1] * r[2] /\ parsed.millis = 0
            ELSE parsed.kind = "err" /\ parsed.err \in {"InvalidNumber", "UnsupportedUnit"}

\* The positions in main's call sequence of the calls of fn.
CallsOf(fn) == {i \in 1..Len(calls) : calls[i].fn = fn}

Least(S) == CHOOSE i \in S : \A j \in S : i <= j

Greatest(S) == CHOOSE i \in S : \A j \in S : i >= j

\* Two samples, both on the one subscription and the channel set it was
\* created with, the sleep between them, then one delta of (first, second).
TwoSamplesThenOneDelta ==
    LET S == CallsOf("IOReportCreateSamples")
        D == CallsOf("IOReportCreateSamplesDelta")
        C == CallsOf("IOReportCreateSubscription")
    IN  /\ Cardinality(C) = 1
        /\ Cardinality(S) = 2
        /\ \A i \in S : \A c \in C : calls[i].a = <<calls[c].ret, calls[c].a[1]>>
        /\ \E w \in CallsOf("sleep") : Least(S) < w /\ w < Greatest(S)
        /\ Cardinality(D) = 1
        /\ \A d \in D :
              /\ d > Greatest(S)
              /\ calls[d].a = <<calls[Least(S)].ret, calls[Greatest(S)].ret>>

\* C9 as stated: every finished run has taken exactly two samples from its
\* one subscription, slept between them and computed the delta once, of the
\* first and the second sample in that order.
C9_EveryRunSamplesTwice == pc = "done" => TwoSamplesThenOneDelta

\* C9 amended: every finished run that obtained a subscription has taken
\* exactly two samples from it with its channel set, slept between them and
\* computed the delta once, of the first and the second sample in that order;
\* a run without a subscription takes no sample and computes no delta; no run
\* ever holds more than one subscription, two samples or one delta.
C9_SubscribedRunSamplesTwice ==
    /\ (pc = "done" /\ m.subscription # 0) => TwoSamplesThenOneDelta
    /\ m.subscription = 0 =>
          CallsOf("IOReportCreateSamples") \cup CallsOf("IOReportCreateSamplesDelta") = {}
    /\ Cardinality(CallsOf("IOReportCreateSubscription")) <= 1
    /\ Cardinality(CallsOf("IOReportCreateSamples")) <= 2
    /\ Cardinality(CallsOf("IOReportCreateSamplesDelta")) <= 1

\* C9's case: a run that ended normally after two distinct non-null samples
\* and printed a channel.
C9_Witness ==
    /\ pc = "done" /\ exit.status = "ok"
    /\ m.sample1 # 0 /\ m.sample2 # 0 /\ m.sample1 # m.sample2
    /\ output # <<>>

\* The failure each foreign call's refusal is to be reported as.
FailureOf(fn) ==
    CASE fn = "IOReportCopyChannelsInGroup" -> "Failed to get channels"
      [] fn = "IOReportCreateSubscription" -> "Failed to create subscription"
      [] fn = "IOReportCreateSamples" -> "Failed to capture sample"
      [] fn = "IOReportCreateSamplesDelta" -> "Failed to compute delta"
      [] fn = "CFDictionaryGetValue" -> "Missing channel data"
      [] OTHER -> ""

Refused(c) == c.fn # "sleep" /\ c.ret = 0

\* C10: each of the five refusals (no channels, no subscription, a null
\* sample, a null delta, no channel list) ends the run with the corresponding
\* failure returned; after a refusal there is no later foreign call, no
\* extraction and no retry.
C10_RefusalEndsTheRun ==
    /\ \A i \in 1..Len(calls) :
          Refused(calls[i]) =>
             /\ \A j \in (i + 1)..Len(calls) : calls[j].fn = "sleep"
             /\ pc \notin {"sample2", "delta", "lookup", "extract"}
    /\ \A i \in 1..Len(calls) :
          (pc = "done" /\ Refused(calls[i])) =>
             /\ exit.status = "err"
             /\ exit.msg = FailureOf(calls[i].fn)
             /\ output = <<>>

\* C11: for every list of (state name, residency) pairs the usage main's
\* loop computes equals the usage the library computes for the same list
\* (states classified as in get_delta, then GPUChannel::usage), also for
\* mixed-case names and for residencies that sum to zero or below.
C11_MainUsageIsLibraryUsage ==
    (outUsage.called /\ exit.status # "none") =>
        /\ outUsage.panic <=> (exit.status = "panic")
        /\ ~outUsage.panic => (Len(output) = 1 /\ output[1].usage = outUsage.val)

\* C12: total_residency() gives the same outcome for a channel and for every
\* reordering of its states, also when a partial sum leaves the i64 range
\* while the full sum fits in it.
C12_TotalIgnoresOrder ==
    (outTotal.called /\ last.op = "total_residency") =>
        /\ last.out.panic = outTotal.panic
        /\ last.out.val = outTotal.val

=============================================================================
